---- MODULE Spec2Model ----
(***************************************************************************)
(* Segment job state machine of the Iris main service                      *)
(* (main_service/app/state_machine.py, main_service/app/main.py) and the   *)
(* segment loop of the serverless pipeline                                 *)
(* (serverless/src/video_pipeline.py).                                     *)
(*                                                                         *)
(* One job is modelled.  Every asyncio task is a record of `tasks`; one    *)
(* action runs a task from the point where it was resumed to its next      *)
(* real suspension point (an httpx call) or to its end.  The media tool    *)
(* and the speech client are called synchronously by the code, so they     *)
(* are part of the step that reaches them.  The outcome of every external  *)
(* call made during a step is an input `o` of the step.                    *)
(***************************************************************************)
EXTENDS Integers, Sequences, FiniteSets, TLC

\* ------------------------------------------------------------------------
\* Bounds of the model
\* ------------------------------------------------------------------------
NumSegs == 3
SvSegs == 2
MaxTasks == 2
MaxDeletes == 1
MaxEdits == 1
MaxRaised == 1
DurGrid == 25
MaxTicks == 8
MaxTarget == 240
MaxPosts == 3

\* ------------------------------------------------------------------------
\* Program constants (durations are in tenths of a second)
\* ------------------------------------------------------------------------
VEO_MAX_DURATION == 80
VEO_MIN_DURATION == 40
DefaultDuration == 50

VARIABLES
    segments,      \* job.segments: the list of segment objects (by handle)
    seg,           \* the Segment objects, by handle
    jobStatus,     \* job.status
    csi,           \* job.current_segment_index
    final,         \* job.final_video_path
    tasks,         \* the asyncio tasks created by start, resume and retry
    asmLog,        \* the calls received by the final assembler
    pauseReq,      \* a pause request was made after the last start/resume call
    nDeleted,      \* number of delete calls made
    nEdits,        \* number of segment update and replace calls made
    nRaised,       \* number of calls that raised an error
    \* serverless pipeline (video_pipeline.py), VideoPipeline.generate_video:
    svPc,          \* "idle", "run" (awaiting one attempt), "done", "failed"
    svI,           \* index of the segment in the loop
    svAttempt,     \* attempt number of _process_segment_with_retry
    svLastError,   \* last_error
    svVideos,      \* segment_videos, as the indices of the segments
    svPrev,        \* prev_segment (an index, -1 for None)
    svFailed,      \* indices of the segments that failed every attempt
    \* one call of a media helper (video_combiner.py) or of one step of
    \* process_segment, looked at on its own:
    fnPc,          \* "idle" (no call), "in" (called), "out" (returned)
    fnIn,          \* the arguments and what the media tools answer
    fnOut          \* what the call returned or raised

mainVars == <<segments, seg, jobStatus, csi, final, tasks, asmLog, pauseReq, nDeleted,
             nEdits, nRaised>>
svVars == <<svPc, svI, svAttempt, svLastError, svVideos, svPrev, svFailed>>
fnVars == <<fnPc, fnIn, fnOut>>
vars == <<mainVars, svVars, fnVars>>

NoCall == [fn |-> "none"]

SegIds == 1..NumSegs
TaskIds == 1..MaxTasks

NoPath == <<>>
FinalPath == <<"final">>

Max(a, b) == IF a >= b THEN a ELSE b
Min(a, b) == IF a <= b THEN a ELSE b

\* ------------------------------------------------------------------------
\* Segment objects (models.py: Segment)
\* ------------------------------------------------------------------------
TypeAt(k) == CASE k % 3 = 1 -> "manim"
               [] k % 3 = 2 -> "transition"
               [] OTHER     -> "animation"

VoiceAt(k) == k % 3 # 0

NewSegment(k) ==
    [id |-> k, order |-> k - 1, type |-> TypeAt(k), voice |-> VoiceAt(k),
     status |-> "pending", video_path |-> NoPath, audio_path |-> NoPath,
     combined_path |-> NoPath, duration |-> 0, script |-> NoPath,
     error |-> "none", logs |-> <<>>]

AddLog(sg, m) == [sg EXCEPT !.logs = Append(@, m)]

AddLogs(sg, ms) == [sg EXCEPT !.logs = @ \o ms]

\* s.combined_path or s.video_path
Out(sg) == IF sg.combined_path # NoPath THEN sg.combined_path ELSE sg.video_path

\* ------------------------------------------------------------------------
\* Tasks.  A loop task (kind "start" or "resume") or a retry task; pc is
\* the await at which the task is suspended:
\*   "new"      created by asyncio.create_task, not yet run
\*   "preview"  awaiting generate_script_preview
\*   "render"   awaiting generate_visual (manim / pysim)
\*   "overlay"  awaiting generate_visual (sound wave of a transition)
\*   "clip"     awaiting generate_visual (one Veo clip)
\*   "done"     returned;  "crashed"  ended by an uncaught exception
\* The other fields are the locals of the coroutines.
\* ------------------------------------------------------------------------
NoTask ==
    [kind |-> "none", pc |-> "idle", list |-> <<>>, start |-> 0, n |-> 0,
     i |-> 0, seg |-> 0, prev |-> 0, audio |-> NoPath, dur |-> 0,
     script |-> NoPath, frame |-> FALSE, clip |-> 0, nclips |-> 0,
     bad |-> FALSE, skipped |-> 0, ord |-> 0]

EndTask(T, how) == [NoTask EXCEPT !.kind = T.kind, !.pc = how]

Awaiting == {"preview", "render", "overlay", "clip"}

\* ------------------------------------------------------------------------
\* Outcomes of the external calls made during one step:
\*   call   the awaited renderer call: "ok", "fail" (raises: non-200, timeout)
\*          or "novideo" (returns no video path: 422 with the script)
\*   far    get_media_duration(video) differs from the target by more
\*          than 0.5 s
\*   post   the media-tool step that exits nonzero, if it is run ("ok": none)
\*   tts    generate_voiceover of the segment begun in this step
\*   dur    the duration generate_voiceover reports
\*   frame  extract_last_frame succeeds
\*   asm    the final copy / concatenation succeeds
\* ------------------------------------------------------------------------
TtsDurations == {30, 120}

AllOutcomes ==
    [call : {"ok", "fail", "novideo"}, far : BOOLEAN,
     post : {"ok", "compose", "xfade", "probe", "match", "combine"},
     tts : {"ok", "fail"}, dur : TtsDurations, frame : BOOLEAN, asm : BOOLEAN]

\* A call that is not reached in a step has no outcome: what follows a
\* failure is fixed, so that one behaviour of the step is one outcome.
Reached(o) ==
    /\ o.call # "ok" => ~o.far /\ o.post = "ok"
    /\ o.post # "ok" => o.tts = "ok"
    /\ o.tts = "fail" => o.dur = 30 /\ o.frame

Outcomes == {o \in AllOutcomes : Reached(o)}

\* Faulty variant: the division is rounded down.
NumClipsFloor(d) == Max(1, d \div VEO_MAX_DURATION)

\* state_machine.py: generate_veo_clips, num_clips
NumClips(d) == Max(1, (d + VEO_MAX_DURATION - 1) \div VEO_MAX_DURATION)

\* ------------------------------------------------------------------------
\* process_segment (state_machine.py:100-274)
\* ------------------------------------------------------------------------
\* Faulty variant: the failure is not recorded on the segment.
FailSilent(sg, e) == [sg EXCEPT !.status = "failed"]

\* except Exception as e: (268-272)
Fail(sg, e) ==
    [sg EXCEPT !.status = "failed", !.error = e, !.logs = Append(@, "ERROR")]

\* Faulty variant: the failure drops the script held by the segment.
RaisedLosing(sg, T, e) ==
    [sg |-> [Fail(sg, e) EXCEPT !.script = NoPath], T |-> T, res |-> "raise"]

Raised(sg, T, e) == [sg |-> Fail(sg, e), T |-> T, res |-> "raise"]

\* Steps 3 and 4 and the completion (241-266), after the visual exists.
PostVisual(sg, T, video, o) ==
    LET s1 == AddLog([sg EXCEPT !.video_path = video], "visual generated")
        timed == sg.type # "transition"
        stretch == timed /\ T.audio # NoPath /\ o.far
        s2 == IF stretch THEN AddLog(s1, "time-stretching") ELSE s1
        s3 == IF stretch THEN AddLog(s2, "time-stretched") ELSE s1
        v2 == IF stretch THEN <<"matched", sg.id>> ELSE video
        s4 == IF T.audio # NoPath THEN AddLog(s3, "combining") ELSE s3
        s5 == IF T.audio # NoPath
              THEN AddLog([s4 EXCEPT !.combined_path = <<"combined", sg.id>>],
                          "combined")
              ELSE [s4 EXCEPT !.combined_path = v2]
    IN  IF timed /\ o.post = "probe" THEN Raised(s1, T, "probe")
        ELSE IF stretch /\ o.post = "match" THEN Raised(s2, T, "match")
        ELSE IF T.audio # NoPath /\ o.post = "combine" THEN Raised(s4, T, "combine")
        ELSE [sg |-> AddLog([s5 EXCEPT !.status = "completed"], "completed"),
              T |-> T, res |-> "ok"]

\* From the entry of process_segment to its first await (116-236).
\* S is the store of segment objects (for prev_segment).
ProcBegin(sg, T, S, o) ==
    LET s0 == AddLog([sg EXCEPT !.status = "processing"], "starting")
        audio == IF sg.voice THEN <<"audio", sg.id>> ELSE NoPath
        dur == IF sg.voice THEN o.dur ELSE DefaultDuration
        s1 == IF sg.voice THEN AddLogs(s0, <<"voiceover", "voiceover generated">>)
              ELSE s0
        s2 == AddLog([s1 EXCEPT !.audio_path = audio, !.duration = dur],
                     "generating visual")
        T2 == [T EXCEPT !.audio = audio, !.dur = dur]
        hasPrev == T.prev # 0 /\ Out(S[T.prev]) # NoPath
        s3t == AddLog(s2, "sound wave transition")
        s4t == IF hasPrev
               THEN AddLog(s3t, IF o.frame THEN "last frame" ELSE "frame warning")
               ELSE s3t
        n == NumClips(dur)
        s3a == AddLog(s2, "veo clips")
    IN  IF sg.voice /\ o.tts = "fail"
        THEN Raised(AddLog(s0, "voiceover"), T, "tts")
        ELSE CASE sg.type = "transition" ->
                    [sg |-> s4t, res |-> "await",
                     T |-> [T2 EXCEPT !.pc = "overlay",
                                      !.frame = hasPrev /\ o.frame]]
               [] sg.type = "animation" ->
                    [sg |-> IF n > 1 THEN AddLog(s3a, "clip") ELSE s3a,
                     res |-> "await",
                     T |-> [T2 EXCEPT !.pc = "clip", !.clip = 0, !.nclips = n,
                                      !.bad = FALSE]]
               [] OTHER ->
                    [sg |-> AddLog(s2, "generating script"), res |-> "await",
                     T |-> [T2 EXCEPT !.pc = "preview"]]

\* Faulty variant: the render is requested whatever the preview did.
AfterPreviewBlind(sg, T, o) ==
    [sg |-> AddLog(sg, "running simulation"),
     T |-> [T EXCEPT !.pc = "render"], res |-> "await"]

\* generate_script_preview returns (222-236): the script is stored on the
\* segment and the render is requested with it; a failed preview is logged
\* and raised again.
AfterPreview(sg, T, o) ==
    IF o.call = "ok"
    THEN [sg |-> AddLogs([sg EXCEPT !.script = <<"script", sg.id>>],
                         <<"script generated", "running simulation">>),
          T |-> [T EXCEPT !.pc = "render", !.script = <<"script", sg.id>>],
          res |-> "await"]
    ELSE Raised(AddLog(sg, "script generation failed"), T, "preview")

\* The awaited call returns: from there to the next await or to the end.
ProcResume(sg, T, o) ==
    CASE T.pc = "preview" -> AfterPreview(sg, T, o)
      [] T.pc = "render" ->
           IF o.call = "ok" THEN PostVisual(sg, T, <<"video", sg.id>>, o)
           ELSE IF o.call = "novideo" THEN Raised(sg, T, "novideo")
           ELSE Raised(sg, T, "render")
      [] T.pc = "overlay" ->
           IF o.call = "fail" THEN Raised(sg, T, "render")
           ELSE IF o.call = "novideo" \/ o.post = "compose" \/ T.audio = NoPath
           THEN Raised(AddLog(sg, "overlay generated"), T, "compose")
           ELSE PostVisual(AddLogs(sg, <<"overlay generated", "composed">>), T,
                           <<"transition", sg.id>>, o)
      [] T.pc = "clip" ->
           IF o.call = "fail" THEN Raised(sg, T, "render")
           ELSE IF T.nclips = 1
           THEN IF o.call = "ok" THEN PostVisual(sg, T, <<"video", sg.id>>, o)
                ELSE Raised(sg, T, "novideo")
           ELSE IF T.clip + 1 < T.nclips
           THEN [sg |-> AddLog(sg, "clip"), res |-> "await",
                 T |-> [T EXCEPT !.clip = @ + 1,
                                 !.bad = @ \/ o.call = "novideo"]]
           ELSE IF T.bad \/ o.call = "novideo" \/ o.post = "xfade"
           THEN Raised(AddLogs(sg, <<"crossfading", "crossfade">>), T, "xfade")
           ELSE PostVisual(AddLogs(sg, <<"crossfading">> \o
                                       [k \in 1..(T.nclips - 1) |-> "crossfade"]),
                           T, <<"faded", sg.id>>, o)

\* ------------------------------------------------------------------------
\* The job as one step sees it: M = the job's fields, the segment objects
\* and the running task T.
\* ------------------------------------------------------------------------
\* The loop takes the segment s at index i; ord keeps the order the segment
\* has at that moment.
Enter(M, i, s) == [M.T EXCEPT !.i = i, !.seg = s, !.ord = M.seg[s].order]

AllCompleted(list, S) == \A k \in 1..Len(list) : S[list[k]].status = "completed"

\* sorted(job.segments, key=lambda x: x.order): a stable sort.  x comes
\* before the elements of `sorted` in the list, so it stays in front of
\* those of equal order.
RECURSIVE InsertByOrder(_, _, _)
InsertByOrder(x, sorted, S) ==
    IF sorted = <<>> THEN <<x>>
    ELSE IF S[x].order <= S[Head(sorted)].order THEN <<x>> \o sorted
    ELSE <<Head(sorted)>> \o InsertByOrder(x, Tail(sorted), S)

\* Faulty variant: the segments are taken in list order.
SortByOrderNot(list, S) == list

RECURSIVE SortByOrder(_, _)
SortByOrder(list, S) ==
    IF list = <<>> THEN <<>>
    ELSE InsertByOrder(Head(list), SortByOrder(Tail(list), S), S)

HasOut(S) == [x \in DOMAIN S |-> Out(S[x]) # NoPath]

\* Faulty variant: the raw video is taken even where a combined one exists.
SegmentVideosRaw(list, S) ==
    LET withOut == SelectSeq(SortByOrder(list, S), LAMBDA x : HasOut(S)[x])
    IN  [k \in 1..Len(withOut) |-> S[withOut[k]].video_path]

\* segment_videos (498-502, 660-664)
SegmentVideos(list, S) ==
    LET withOut == SelectSeq(SortByOrder(list, S), LAMBDA x : HasOut(S)[x])
    IN  [k \in 1..Len(withOut) |-> Out(S[withOut[k]])]

\* The target format of concatenate_final_video (47-49, 61).
TargetWidth == 1280
TargetHeight == 720
TargetFps == 30
TargetRate == 44100

\* shutil.copy(segment_videos[0], final_output) (507-510): the file is
\* copied as it is; no filter and no encoder are involved.
CopyFinal(videos, ok) ==
    [inputs |-> videos, ok |-> ok, mode |-> "copy", filters |-> <<>>,
     codec |-> "none"]

\* concatenate_final_video (38-97): one ffmpeg run in which every input is
\* scaled and padded to the target size, set to the target frame rate and
\* resampled, the streams are concatenated in the order of the inputs and
\* the result is encoded again.
ConcatenateFinalVideo(videos, ok) ==
    [inputs |-> videos, ok |-> ok, mode |-> "concat",
     filters |-> [k \in 1..Len(videos) |->
                    [width |-> TargetWidth, height |-> TargetHeight,
                     fps |-> TargetFps, rate |-> TargetRate]],
     codec |-> "libx264"]

\* `if len(segment_videos) == 1:` (507-514)
FinalAssembly(videos, ok) ==
    IF Len(videos) = 1 THEN CopyFinal(videos, ok)
    ELSE ConcatenateFinalVideo(videos, ok)

\* Faulty variant: a failed assembly leaves the job as it was.
EndLoopReverting(M, o) ==
    LET videos == SegmentVideos(M.segments, M.seg)
        done == [M EXCEPT !.T = EndTask(M.T, "done")]
    IN  IF AllCompleted(M.segments, M.seg)
        THEN [done EXCEPT
                !.js = IF videos # <<>> /\ ~o.asm THEN @ ELSE "completed",
                !.final = IF videos # <<>> /\ o.asm THEN FinalPath ELSE @,
                !.asm = IF videos # <<>>
                        THEN Append(@, FinalAssembly(videos, o.asm))
                        ELSE @]
        ELSE done

\* After the loop: the completion check and the final assembly
\* (run_generation_job 488-528, _run_job_from_index 654-685).
EndLoop(M, o) ==
    LET videos == SegmentVideos(M.segments, M.seg)
        done == [M EXCEPT !.T = EndTask(M.T, "done")]
    IN  IF AllCompleted(M.segments, M.seg)
        THEN [done EXCEPT
                !.js = "completed",
                !.final = IF videos # <<>> /\ o.asm THEN FinalPath ELSE @,
                !.asm = IF videos # <<>>
                        THEN Append(@, FinalAssembly(videos, o.asm))
                        ELSE @]
        ELSE done

\* Faulty variant: the failure leaves the loop without pausing the job.
StartLoopFailedRunning(M, o) == EndLoop(M, o)

\* except Exception (479-486): pause the job and leave the loop; the
\* completion check still runs.
StartLoopFailed(M, o) == EndLoop([M EXCEPT !.js = "paused"], o)

\* Faulty variant: the loop does not record the index it is at.
StartLoopFromStale(M, i, o) ==
    IF i >= Len(M.T.list) \/ M.js = "paused" THEN EndLoop(M, o)
    ELSE LET s == M.T.list[i + 1]
             r == ProcBegin(M.seg[s], Enter(M, i, s), M.seg, o)
             M1 == [M EXCEPT !.seg[s] = r.sg, !.T = r.T]
         IN  IF r.res = "raise" THEN StartLoopFailed(M1, o) ELSE M1

\* One iteration of `for i, segment in enumerate(job.segments)` (468-478),
\* up to the first await of process_segment.
StartLoopFrom(M, i, o) ==
    IF i >= Len(M.T.list) \/ M.js = "paused" THEN EndLoop(M, o)
    ELSE LET s == M.T.list[i + 1]
             r == ProcBegin(M.seg[s], Enter(M, i, s), M.seg, o)
             M1 == [M EXCEPT !.csi = i, !.seg[s] = r.sg, !.T = r.T]
         IN  IF r.res = "raise" THEN StartLoopFailed(M1, o) ELSE M1

\* except Exception (646-652): pause the job and return.
ResumeLoopFailed(M) == [M EXCEPT !.js = "paused", !.T = EndTask(M.T, "done")]

\* Faulty variant: no segment is skipped.
SkipNever(sg) == FALSE

\* Skip already completed segments (636-639).
SkipCompleted(sg) == sg.status = "completed"

\* `for i in range(start_index, len(job.segments))` (629-645), up to the
\* first await of process_segment; job.segments[i] raises IndexError when
\* the list has become shorter.
RECURSIVE ResumeLoopFrom(_, _, _)
ResumeLoopFrom(M, i, o) ==
    IF i >= M.T.n \/ M.js = "paused" THEN EndLoop(M, o)
    ELSE IF i >= Len(M.segments) THEN [M EXCEPT !.T = EndTask(M.T, "crashed")]
    ELSE LET s == M.segments[i + 1]
             M0 == [M EXCEPT !.csi = i]
             r == ProcBegin(M.seg[s], Enter(M, i, s), M.seg, o)
             M1 == [M0 EXCEPT !.seg[s] = r.sg, !.T = r.T]
         IN  IF SkipCompleted(M.seg[s])
             THEN ResumeLoopFrom([M0 EXCEPT !.T.prev = s, !.T.skipped = @ + 1],
                                 i + 1, o)
             ELSE IF r.res = "raise" THEN ResumeLoopFailed(M1) ELSE M1

Machine(T) ==
    [segments |-> segments, seg |-> seg, js |-> jobStatus, csi |-> csi,
     final |-> final, asm |-> asmLog, T |-> T]

\* Faulty variant: the task does not set the job running.
StartLoopEntryIdle(M) == [M EXCEPT !.T.list = M.segments, !.T.prev = 0]

\* First step of run_generation_job (461-466).
StartLoopEntry(M) ==
    [M EXCEPT !.js = "running", !.T.list = M.segments, !.T.prev = 0]

\* First step of _run_job_from_index (627).
ResumeLoopEntry(M) ==
    IF M.T.start > Len(M.segments)
    THEN [M EXCEPT !.T = EndTask(M.T, "crashed")]
    ELSE [M EXCEPT !.T.n = Len(M.segments),
                   !.T.prev = IF M.T.start > 0 THEN M.segments[M.T.start] ELSE 0]

\* A loop task runs from where it is to its next await or to its end.
LoopRun(T, o) ==
    LET M == Machine(T)
        r == ProcResume(seg[T.seg], T, o)
        Mr == [M EXCEPT !.seg[T.seg] = r.sg, !.T = r.T]
        Mok == [Mr EXCEPT !.T.prev = T.seg]
    IN  IF T.pc = "new"
        THEN IF T.kind = "start" THEN StartLoopFrom(StartLoopEntry(M), 0, o)
             ELSE LET E == ResumeLoopEntry(M)
                  IN  IF E.T.pc = "crashed" THEN E
                      ELSE ResumeLoopFrom(E, T.start, o)
        ELSE CASE r.res = "await" -> Mr
               [] r.res = "ok" ->
                    IF T.kind = "start" THEN StartLoopFrom(Mok, T.i + 1, o)
                    ELSE ResumeLoopFrom(Mok, T.i + 1, o)
               [] OTHER ->
                    IF T.kind = "start" THEN StartLoopFailed(Mr, o)
                    ELSE ResumeLoopFailed(Mr)

\* Faulty variant: the retry task also sets the job running.
RetryRunRunning(T, o) ==
    LET M == Machine(T)
        r == IF T.pc = "new" THEN ProcBegin(seg[T.seg], T, seg, o)
             ELSE ProcResume(seg[T.seg], T, o)
    IN  [M EXCEPT !.seg[T.seg] = r.sg, !.js = "running",
                  !.T = IF r.res = "await" THEN r.T ELSE EndTask(T, "done")]

\* _process_segment_retry (594-603): the exception is caught and dropped.
RetryRun(T, o) ==
    LET M == Machine(T)
        r == IF T.pc = "new" THEN ProcBegin(seg[T.seg], T, seg, o)
             ELSE ProcResume(seg[T.seg], T, o)
    IN  [M EXCEPT !.seg[T.seg] = r.sg,
                  !.T = IF r.res = "await" THEN r.T ELSE EndTask(T, "done")]

\* ------------------------------------------------------------------------
\* Actions
\* ------------------------------------------------------------------------
IsLoop(T) == T.kind \in {"start", "resume"}
Active(T) == T.kind # "none" /\ T.pc \notin {"done", "crashed"}
\* The model admits MaxTasks tasks over the life of the job.
CanSpawn == \E t \in TaskIds : tasks[t].kind = "none"
FreeTask == CHOOSE t \in TaskIds :
                tasks[t].kind = "none" /\ \A u \in 1..(t - 1) : tasks[u].kind # "none"

Commit(t, M) ==
    /\ seg' = M.seg
    /\ jobStatus' = M.js
    /\ csi' = M.csi
    /\ final' = M.final
    /\ asmLog' = M.asm
    /\ tasks' = [tasks EXCEPT ![t] = M.T]
    /\ UNCHANGED <<segments, pauseReq, nDeleted, nEdits, nRaised, svVars, fnVars>>

\* start_job (543-552): create_task(run_generation_job(job))
Start ==
    /\ CanSpawn
    /\ tasks' = [tasks EXCEPT ![FreeTask] = [NoTask EXCEPT !.kind = "start", !.pc = "new"]]
    /\ pauseReq' = FALSE
    /\ UNCHANGED <<segments, seg, jobStatus, csi, final, asmLog, nDeleted, nEdits, nRaised, svVars, fnVars>>

\* pause_generation_job (main.py 87-96)
Pause ==
    /\ jobStatus' = "paused"
    /\ pauseReq' = TRUE
    /\ UNCHANGED <<segments, seg, csi, final, tasks, asmLog, nDeleted, nEdits, nRaised, svVars, fnVars>>

\* resume_job_from_segment (606-622)
Resume(idx) ==
    /\ CanSpawn
    /\ jobStatus' = "running"
    /\ csi' = idx
    /\ tasks' = [tasks EXCEPT ![FreeTask] =
                    [NoTask EXCEPT !.kind = "resume", !.pc = "new", !.start = idx]]
    /\ pauseReq' = FALSE
    /\ UNCHANGED <<segments, seg, final, asmLog, nDeleted, nEdits, nRaised, svVars, fnVars>>

\* Faulty variant: the reset keeps the paths of the earlier run.
RetryResetKeeping(sg) ==
    [sg EXCEPT !.status = "processing", !.error = "none",
               !.logs = <<"retry initiated">>]

\* Reset segment state (574-581)
RetryReset(sg) ==
    [sg EXCEPT !.status = "processing", !.error = "none", !.video_path = NoPath,
               !.audio_path = NoPath, !.combined_path = NoPath,
               !.logs = <<"retry initiated">>]

\* Faulty variant: every failed segment is reset with the target.
RetryStoreFailed(S, s) ==
    [x \in DOMAIN S |->
        IF x = s \/ S[x].status = "failed" THEN RetryReset(S[x]) ELSE S[x]]

\* retry_segment resets the one segment found by its id (569-581).
RetryStore(S, s) == [S EXCEPT ![s] = RetryReset(@)]

\* retry_segment (555-591)
Retry(k) ==
    /\ CanSpawn
    /\ k \in 1..Len(segments)
    /\ seg' = RetryStore(seg, segments[k])
    /\ tasks' = [tasks EXCEPT ![FreeTask] =
                    [NoTask EXCEPT !.kind = "retry", !.pc = "new",
                                   !.seg = segments[k],
                                   !.prev = IF k > 1 THEN segments[k - 1] ELSE 0]]
    /\ UNCHANGED <<segments, jobStatus, csi, final, asmLog, pauseReq, nDeleted, nEdits, nRaised, svVars, fnVars>>

LoopStep(t, o) ==
    /\ IsLoop(tasks[t]) /\ Active(tasks[t])
    /\ Commit(t, LoopRun(tasks[t], o))

RetryStep(t, o) ==
    /\ tasks[t].kind = "retry" /\ Active(tasks[t])
    /\ Commit(t, RetryRun(tasks[t], o))

\* The job as create_job leaves it, and the pipeline before its request.
JobCreated ==
    /\ segments = [k \in 1..NumSegs |-> k]
    /\ seg = [k \in SegIds |-> NewSegment(k)]
    /\ jobStatus = "idle"
    /\ csi = 0
    /\ final = NoPath
    /\ tasks = [t \in TaskIds |-> NoTask]
    /\ asmLog = <<>>
    /\ pauseReq = FALSE
    /\ nDeleted = 0
    /\ nEdits = 0
    /\ nRaised = 0
    /\ svPc = "idle"
    /\ svI = 0
    /\ svAttempt = 0
    /\ svLastError = "none"
    /\ svVideos = <<>>
    /\ svPrev = -1
    /\ svFailed = {}

Init ==
    /\ JobCreated
    /\ fnPc = "idle"
    /\ fnIn = NoCall
    /\ fnOut = NoCall

\* The outcomes drawn in the job-level specifications: every await and the
\* speech client may fail, the combine step may fail, the assembly may fail.
JobOutcomes ==
    {o \in Outcomes : /\ o.call \in {"ok", "fail"}
                      /\ o.post \in {"ok", "combine"}
                      /\ ~o.far /\ o.dur = 30 /\ o.frame}

Next ==
    \/ Start
    \/ Pause
    \/ \E idx \in 0..(NumSegs - 1) : Resume(idx)
    \/ \E k \in 1..NumSegs : Retry(k)
    \/ \E t \in TaskIds, o \in JobOutcomes : LoopStep(t, o)
    \/ \E t \in TaskIds, o \in JobOutcomes : RetryStep(t, o)

Spec == Init /\ [][Next]_vars

\* delete_segment (main.py 132-147): a new list without the segment, and
\* the survivors renumbered by their position.
RemoveAt(list, k) == [j \in 1..(Len(list) - 1) |-> IF j < k THEN list[j] ELSE list[j + 1]]

\* Faulty variant: the orders are kept as they were.
RenumberNot(S, list) == S

Renumber(S, list) ==
    [x \in DOMAIN S |->
        IF \E k \in 1..Len(list) : list[k] = x
        THEN [S[x] EXCEPT !.order = (CHOOSE k \in 1..Len(list) : list[k] = x) - 1]
        ELSE S[x]]

Delete(k) ==
    /\ nDeleted < MaxDeletes
    /\ k \in 1..Len(segments)
    /\ segments' = RemoveAt(segments, k)
    /\ seg' = Renumber(seg, RemoveAt(segments, k))
    /\ nDeleted' = nDeleted + 1
    /\ UNCHANGED <<jobStatus, csi, final, tasks, asmLog, pauseReq, nEdits, nRaised, svVars, fnVars>>

NextEdit ==
    \/ Next
    \/ \E k \in 1..NumSegs : Delete(k)

\* The job with the segment edits of main.py.
SpecEdit == Init /\ [][NextEdit]_vars

\* update_segment (main.py 112-129) with update = {"order": v}: the segment
\* found by its id gets the value, whatever it is.  The other fields of
\* SegmentUpdate are set the same way.
UpdateOrder(k, v) ==
    /\ nEdits < MaxEdits
    /\ k \in 1..Len(segments)
    /\ seg' = [seg EXCEPT ![segments[k]].order = v]
    /\ nEdits' = nEdits + 1
    /\ UNCHANGED <<segments, jobStatus, csi, final, tasks, asmLog, pauseReq, nDeleted,
                   nRaised, svVars, fnVars>>

\* The lists a replace request carries: the job's segments, or some of
\* them, in any order (p[j] is the position in job.segments of the j-th
\* segment sent).
Perms(n) ==
    UNION {{p \in [1..m -> 1..n] : \A a, b \in 1..m : p[a] = p[b] => a = b} :
              m \in 1..n}

\* The objects parsed from the body of a replace request that sends the
\* segments p, with their order fields as they were or rewritten to the
\* new positions.
Parsed(p, renum, base) ==
    [x \in (base + 1)..(base + Len(p)) |->
        [seg[segments[p[x - base]]] EXCEPT
            !.order = IF renum THEN x - base - 1 ELSE @]]

\* update_job_segments (main.py 99-109): job.segments = request.segments,
\* a list of new objects; the tasks keep the objects they hold.
Replace(p, renum) ==
    LET base == Cardinality(DOMAIN seg)
    IN  /\ nEdits < MaxEdits
        /\ segments' = [j \in 1..Len(p) |-> base + j]
        /\ seg' = seg @@ Parsed(p, renum, base)
        /\ nEdits' = nEdits + 1
        /\ UNCHANGED <<jobStatus, csi, final, tasks, asmLog, pauseReq, nDeleted,
                       nRaised, svVars, fnVars>>

\* The list edits, MaxEdits of them in all, around the two segment loops.
EditBudget == nDeleted + nEdits < MaxEdits

NextOrder ==
    \/ Start
    \/ \E idx \in 0..(NumSegs - 1) : Resume(idx)
    \/ \E t \in TaskIds, o \in JobOutcomes : LoopStep(t, o)
    \/ EditBudget /\ \E k \in 1..NumSegs : Delete(k)
    \/ EditBudget /\ \E k \in 1..NumSegs, v \in 0..(NumSegs - 1) : UpdateOrder(k, v)
    \/ EditBudget /\ \E p \in Perms(Len(segments)), renum \in BOOLEAN : Replace(p, renum)

SpecOrder == Init /\ [][NextOrder]_vars

\* The registry `jobs` (state_machine.py 35, 531-535) holds the one job
\* created; a request may name it or a job that does not exist.
Registry == {1}
JobIds == {1, 2}

\* start_job (543-552): ValueError for an id that is not in the registry.
StartJob(j) ==
    IF j \in Registry THEN Start
    ELSE /\ nRaised < MaxRaised
         /\ nRaised' = nRaised + 1
         /\ UNCHANGED <<segments, seg, jobStatus, csi, final, tasks, asmLog, pauseReq,
                        nDeleted, nEdits, svVars, fnVars>>

NextReg ==
    \/ \E j \in JobIds : StartJob(j)
    \/ Pause
    \/ \E idx \in 0..(NumSegs - 1) : Resume(idx)
    \/ \E k \in 1..NumSegs : Retry(k)
    \/ \E t \in TaskIds, o \in JobOutcomes : LoopStep(t, o)
    \/ \E t \in TaskIds, o \in JobOutcomes : RetryStep(t, o)

SpecReg == Init /\ [][NextReg]_vars

\* The segment processor on every kind of segment.  The job is created
\* with segments of any type, with or without a voiceover, and processed
\* by the start loop and by retries, each call having any of its outcomes.
SegmentTypes == {"animation", "manim", "pysim", "transition"}

\* The segments whose kind is drawn; the others are as in Init.
Varied == {2}

InitProc ==
    /\ segments = [k \in 1..NumSegs |-> k]
    /\ \E ty \in [Varied -> SegmentTypes], vo \in [Varied -> BOOLEAN] :
          seg = [k \in SegIds |->
                    IF k \in Varied
                    THEN [NewSegment(k) EXCEPT !.type = ty[k], !.voice = vo[k]]
                    ELSE NewSegment(k)]
    /\ jobStatus = "idle"
    /\ csi = 0
    /\ final = NoPath
    /\ tasks = [t \in TaskIds |-> NoTask]
    /\ asmLog = <<>>
    /\ pauseReq = FALSE
    /\ nDeleted = 0
    /\ nEdits = 0
    /\ nRaised = 0
    /\ svPc = "idle"
    /\ svI = 0
    /\ svAttempt = 0
    /\ svLastError = "none"
    /\ svVideos = <<>>
    /\ svPrev = -1
    /\ svFailed = {}
    /\ fnPc = "idle"
    /\ fnIn = NoCall
    /\ fnOut = NoCall

\* No task is alive.
NoneActive == \A t \in TaskIds : ~Active(tasks[t])

\* One task at a time: the processor is looked at, not the interleavings.
NextProc ==
    \/ NoneActive /\ Start
    \/ NoneActive /\ \E k \in 1..NumSegs : Retry(k)
    \/ \E t \in TaskIds, o \in Outcomes : LoopStep(t, o)
    \/ \E t \in TaskIds, o \in Outcomes : RetryStep(t, o)

SpecProc == InitProc /\ [][NextProc]_vars

\* ------------------------------------------------------------------------
\* The serverless pipeline: VideoPipeline.generate_video (72-189) and
\* _process_segment_with_retry (191-227).  One step is one awaited attempt
\* of _process_segment on segment svI.
\* ------------------------------------------------------------------------
SvMaxRetries == 3

SvErrors == {"e1", "e2"}

\* generate_video up to the first attempt at segment 0 (93-115).
SvStart ==
    /\ svPc = "idle"
    /\ svPc' = "run"
    /\ UNCHANGED <<svI, svAttempt, svLastError, svVideos, svPrev, svFailed, mainVars, fnVars>>

\* The loop goes to the next segment or ends (111, 134-139): with no video
\* the pipeline fails, else the videos are concatenated.
SvAdvance(videos, concatOk) ==
    IF svI + 1 < SvSegs
    THEN /\ svI' = svI + 1 /\ svPc' = "run"
    ELSE /\ svI' = svI
         /\ svPc' = IF videos # <<>> /\ concatOk THEN "done" ELSE "failed"

\* The attempt returns a path (124-127).
SvAttemptOk(concatOk) ==
    /\ svPc = "run"
    /\ svVideos' = Append(svVideos, svI)
    /\ svPrev' = svI
    /\ svAttempt' = 0 /\ svLastError' = "none"
    /\ SvAdvance(Append(svVideos, svI), concatOk)
    /\ UNCHANGED <<svFailed, mainVars, fnVars>>

\* The last attempt failed: the exception reaches generate_video (129-132).
SvSegmentFailed(concatOk) ==
    /\ svFailed' = svFailed \cup {svI}
    /\ svAttempt' = 0 /\ svLastError' = "none"
    /\ SvAdvance(svVideos, concatOk)
    /\ UNCHANGED <<svVideos, svPrev>>

\* Faulty variant of SvRetryError: the error of the first failure is kept.
SvRetryErrorFirst(attempt, last, e) == IF attempt = 0 THEN e ELSE last

\* last_error after an attempt has raised e (219-220).
SvRetryError(attempt, last, e) == e

\* The previous_error argument of the attempt in flight (215).
SvPreviousError == IF svAttempt > 0 THEN svLastError ELSE "none"

\* The attempt raises (219-225).
SvAttemptFail(e, concatOk) ==
    /\ svPc = "run"
    /\ IF svAttempt < SvMaxRetries - 1
       THEN /\ svAttempt' = svAttempt + 1
            /\ svLastError' = SvRetryError(svAttempt, svLastError, e)
            /\ UNCHANGED <<svPc, svI, svVideos, svPrev, svFailed>>
       ELSE SvSegmentFailed(concatOk)
    /\ UNCHANGED <<mainVars, fnVars>>

SvNext ==
    \/ SvStart
    \/ \E c \in BOOLEAN : SvAttemptOk(c)
    \/ \E e \in SvErrors, c \in BOOLEAN : SvAttemptFail(e, c)

\* The job has not been touched: no call was made on the main service.
MainIdle == jobStatus = "idle" /\ \A t \in TaskIds : tasks[t].kind = "none"

\* The pipeline is not in its loop.
SvAtRest == svPc # "run"

\* The two segment loops.  The two services share no state, so the order
\* of their steps does not matter: the pipeline's request is served before
\* the first call on the main service.
NextLoops ==
    \/ SvAtRest /\ Next
    \/ MainIdle /\ SvNext

SpecLoops == Init /\ [][NextLoops]_vars

\* ------------------------------------------------------------------------
\* Single calls.  The specifications below look at one call on its own:
\* the arguments and the answers of the media tools are drawn at the
\* start, and the steps of the call are the actions.
\* ------------------------------------------------------------------------
\* process_segment on one segment of any kind, from the await at which the
\* visual is requested: the segment and the task are as the first part of
\* process_segment leaves them (116-236).
AtVisual(ty, vo, d, pv, fr) ==
    LET o0 == [call |-> "ok", far |-> FALSE, post |-> "ok", tts |-> "ok",
               dur |-> d, frame |-> fr, asm |-> TRUE]
        sg0 == [NewSegment(1) EXCEPT !.type = ty, !.voice = vo]
        T0 == [NoTask EXCEPT !.kind = "retry", !.pc = "new", !.seg = 1,
                             !.prev = IF pv = "none" THEN 0 ELSE 2]
        done == [NewSegment(2) EXCEPT !.status = "completed",
                                      !.video_path = <<"video", 2>>,
                                      !.combined_path = <<"combined", 2>>]
        S == [k \in SegIds |-> IF k = 2 /\ pv = "path" THEN done ELSE NewSegment(k)]
        r0 == ProcBegin(sg0, T0, S, o0)
        r1 == IF r0.T.pc = "preview" THEN AfterPreview(r0.sg, r0.T, o0) ELSE r0
    IN  [fn |-> "visual", sg |-> r1.sg, T |-> r1.T]

\* The previous segment given to process_segment: none, one without an
\* output path, or one with a path, on which extract_last_frame succeeds
\* or fails (fr).
PrevKinds == {"none", "nopath", "path"}

InitVisual ==
    /\ JobCreated
    /\ fnPc = "in"
    /\ \E ty \in SegmentTypes, vo \in BOOLEAN, d \in TtsDurations,
          pv \in PrevKinds, fr \in BOOLEAN :
          fnIn = AtVisual(ty, vo, d, pv, fr)
    /\ fnOut = NoCall

\* The awaited renderer call returns with outcome o: process_segment runs
\* to its next await or to its end (237-274).
VisualStep(o) ==
    LET r == ProcResume(fnIn.sg, fnIn.T, o)
    IN  /\ fnPc = "in" /\ fnIn.fn = "visual"
        /\ IF r.res = "await"
           THEN /\ fnIn' = [fnIn EXCEPT !.sg = r.sg, !.T = r.T]
                /\ UNCHANGED <<fnPc, fnOut>>
           ELSE /\ fnPc' = "out"
                /\ fnOut' = [sg |-> r.sg, res |-> r.res, o |-> o]
                /\ UNCHANGED fnIn
        /\ UNCHANGED <<mainVars, svVars>>

NextVisual == \E o \in Outcomes : VisualStep(o)

SpecVisual == InitVisual /\ [][NextVisual]_vars

\* ------------------------------------------------------------------------
\* The media helpers (video_combiner.py).  Their durations are in
\* hundredths of a second.  What ffprobe reports and whether a tool exits
\* nonzero are arguments of the call.
\* ------------------------------------------------------------------------
HalfSecond == 50

\* The durations drawn: a grid, the values the examples name (5.02 s,
\* 5 s and 10 s) and values just off the thresholds.
Durs == {DurGrid * k : k \in 1..MaxTicks} \cup {502, 500, 1000, 491, 551}

\* What ffmpeg writes for the two commands of combine_audio_video: the
\* video stream padded by tpad, the audio stream, and with -shortest the
\* output ends with the shorter stream, else with the longer one.
MuxLength(cmd, vd, ad) ==
    IF cmd.shortest THEN Min(vd + cmd.tpad, ad) ELSE Max(vd + cmd.tpad, ad)

\* Faulty variant: the video is never extended.
CombineNoFreeze(vd, ad, tool) ==
    LET cmd == [tpad |-> 0, shortest |-> TRUE]
    IN  IF tool # "ok" THEN [res |-> "raise"]
        ELSE [res |-> "ok", cmd |-> cmd, length |-> MuxLength(cmd, vd, ad)]

\* combine_audio_video (250-329): vd and ad are the durations ffprobe
\* reports; tool is the tool that exits nonzero ("probe", "ffmpeg") or "ok".
CombineAudioVideo(vd, ad, tool) ==
    LET cmd == IF ad > vd + HalfSecond
               THEN [tpad |-> ad - vd, shortest |-> FALSE]
               ELSE [tpad |-> 0, shortest |-> TRUE]
    IN  IF tool # "ok" THEN [res |-> "raise"]
        ELSE [res |-> "ok", cmd |-> cmd, length |-> MuxLength(cmd, vd, ad)]

InitCombine ==
    /\ JobCreated
    /\ fnPc = "in"
    /\ \E vd \in Durs, ad \in Durs, tool \in {"ok", "probe", "ffmpeg"} :
          fnIn = [fn |-> "combine", video |-> vd, audio |-> ad, tool |-> tool]
    /\ fnOut = NoCall

CombineStep ==
    /\ fnPc = "in" /\ fnIn.fn = "combine"
    /\ fnPc' = "out"
    /\ fnOut' = CombineAudioVideo(fnIn.video, fnIn.audio, fnIn.tool)
    /\ UNCHANGED <<fnIn, mainVars, svVars>>

\* Faulty variant: a probe that always finds an audio stream.
HasAudioAlways(clip, aprobe) == TRUE

\* has_audio_stream (52-62): aprobe is whether ffprobe exits with 0; a
\* failed probe reads as "no audio".
HasAudioStream(clip, aprobe) == aprobe /\ clip.audio

MatchBand == 10

\* Faulty variant: no difference is small enough to copy.
InBandNever(vd, target) == FALSE

\* abs(video_duration - target_duration) < 0.1 (92).  The durations drawn
\* are never exactly 0.1 s apart, where the floating-point difference
\* falls on either side.
InBand(vd, target) == vd - target < MatchBand /\ target - vd < MatchBand

\* f"{remaining_speed:.4f}" for remaining_speed = num / den: the decimal
\* with four places nearest to it, as a number of ten-thousandths; a value
\* halfway between two goes to the even one.
Round4(num, den) ==
    LET q == (num * 10000) \div den
        r == (num * 10000) % den
    IN  IF 2 * r > den \/ (2 * r = den /\ q % 2 = 1) THEN q + 1 ELSE q

\* Faulty variant: the whole factor goes into one stage.
TempoOneStage(num, den) == <<Round4(num, den)>>

\* The atempo chain for speed_factor = num / den (115-127), each stage in
\* ten-thousandths: "atempo=2.0" while the rest is above 2.0,
\* "atempo=0.5" while it is below 0.5, then the rest to four places unless
\* it is 1.0.
RECURSIVE AudioFilters(_, _)
AudioFilters(num, den) ==
    IF num > 2 * den THEN <<20000>> \o AudioFilters(num, 2 * den)
    ELSE IF 2 * num < den THEN <<5000>> \o AudioFilters(2 * num, den)
    ELSE IF num # den THEN <<Round4(num, den)>>
    ELSE <<>>

\* match_video_to_audio_duration (65-168) on a clip of duration clip.dur
\* with or without an audio stream.  The command is the setpts factor
\* target / source, the atempo chain (empty: no -filter:a) and -an.
MatchVideoToAudioDuration(clip, target, aprobe, tool) ==
    LET stages == IF HasAudioStream(clip, aprobe)
                  THEN AudioFilters(clip.dur, target) ELSE <<>>
        an == stages = <<>>
    IN  IF tool = "probe" THEN [res |-> "raise"]
        ELSE IF InBand(clip.dur, target)
        THEN [res |-> "ok", copy |-> TRUE, out |-> clip]
        ELSE IF tool = "ffmpeg" THEN [res |-> "raise"]
        ELSE [res |-> "ok", copy |-> FALSE,
              cmd |-> [pts |-> <<target, clip.dur>>, afilter |-> stages, an |-> an],
              out |-> [dur |-> target, audio |-> clip.audio /\ ~an]]

MatchTools == {"ok", "probe", "ffmpeg"}

InitMatch ==
    /\ JobCreated
    /\ fnPc = "in"
    /\ \E vd \in Durs, target \in Durs, au \in BOOLEAN, aprobe \in BOOLEAN,
          tool \in MatchTools :
          fnIn = [fn |-> "match", clip |-> [dur |-> vd, audio |-> au],
                  target |-> target, aprobe |-> aprobe, tool |-> tool,
                  round |-> 1, first |-> NoCall]
    /\ fnOut = NoCall

MatchStep ==
    /\ fnPc = "in" /\ fnIn.fn = "match"
    /\ fnPc' = "out"
    /\ fnOut' = MatchVideoToAudioDuration(fnIn.clip, fnIn.target, fnIn.aprobe,
                                          fnIn.tool)
    /\ UNCHANGED <<fnIn, mainVars, svVars>>

\* The matcher is called again on the file it returned, with the same
\* target.
MatchAgain(aprobe, tool) ==
    /\ fnPc = "out" /\ fnIn.fn = "match" /\ fnIn.round = 1 /\ fnOut.res = "ok"
    /\ fnPc' = "in"
    /\ fnIn' = [fnIn EXCEPT !.clip = fnOut.out, !.aprobe = aprobe, !.tool = tool,
                            !.round = 2, !.first = fnOut]
    /\ UNCHANGED <<fnOut, mainVars, svVars>>

\* ------------------------------------------------------------------------
\* generate_veo_clips (state_machine.py 277-336) as one call.  Durations
\* are in tenths of a second, as VEO_MAX_DURATION.  A clip is its index in
\* render order and the duration ffprobe reports for it.
\* ------------------------------------------------------------------------
FadeDuration == 5

\* The lengths of the clips the renderer returns.
ClipLens == {40, 60, 80}

\* clip_duration = min(VEO_MAX_DURATION, max(VEO_MIN_DURATION,
\* target_duration / num_clips)) (286), as the fraction num / den.
ClipDuration(d, n) ==
    [num |-> Min(VEO_MAX_DURATION * n, Max(VEO_MIN_DURATION * n, d)), den |-> n]

\* add_fade_transition (video_combiner.py 171-244): the xfade starts at
\* offset = dur1 - fade_duration and the output ends with the second clip.
AddFadeTransition(v1, v2, k) ==
    [left |-> v1, right |-> v2, offset |-> v1.len - FadeDuration,
     out |-> [id |-> <<"faded", k>>, len |-> v1.len + v2.len - FadeDuration]]

\* Faulty variant: every crossfade joins two rendered clips.
RECURSIVE FadeChainPairs(_, _, _, _)
FadeChainPairs(result, rest, k, failAt) ==
    IF rest = <<>> \/ k = failAt THEN <<>>
    ELSE <<AddFadeTransition(result, Head(rest), k)>>
         \o FadeChainPairs(Head(rest), Tail(rest), k + 1, failAt)

\* Chain crossfades: 1+2, then result+3, etc. (330-336).  failAt is the
\* crossfade whose two ffmpeg runs both exit nonzero (0: none); the chain
\* stops there.
RECURSIVE FadeChain(_, _, _, _)
FadeChain(result, rest, k, failAt) ==
    IF rest = <<>> \/ k = failAt THEN <<>>
    ELSE LET f == AddFadeTransition(result, Head(rest), k)
         IN  <<f>> \o FadeChain(f.out, Tail(rest), k + 1, failAt)

InitVeo ==
    /\ JobCreated
    /\ fnPc = "in"
    /\ \E d \in 1..MaxTarget :
          fnIn = [fn |-> "veo", target |-> d, pc |-> "new", n |-> 0,
                  len |-> [num |-> 0, den |-> 1], reqs |-> <<>>, clips |-> <<>>]
    /\ fnOut = NoCall

\* From the entry to the first await (285-291, 306-322): the number of
\* clips, their length and the first request.
VeoBegin ==
    LET n == NumClips(fnIn.target)
        len == ClipDuration(fnIn.target, n)
    IN  /\ fnPc = "in" /\ fnIn.fn = "veo" /\ fnIn.pc = "new"
        /\ fnIn' = [fnIn EXCEPT !.pc = "clip", !.n = n, !.len = len,
                                !.reqs = <<len>>]
        /\ UNCHANGED <<fnPc, fnOut, mainVars, svVars>>

\* generate_visual returns a clip of length got, or raises (call = "fail").
\* After the last clip the crossfades run without an await.
VeoClipReturns(call, got, failAt) ==
    LET clips == Append(fnIn.clips, [id |-> <<"clip", Len(fnIn.clips) + 1>>, len |-> got])
        fades == FadeChain(Head(clips), Tail(clips), 1, failAt)
    IN  /\ fnPc = "in" /\ fnIn.fn = "veo" /\ fnIn.pc = "clip"
        /\ IF call = "fail"
           THEN /\ fnPc' = "out"
                /\ fnOut' = [res |-> "raise", fades |-> <<>>]
                /\ UNCHANGED fnIn
           ELSE IF Len(clips) < fnIn.n
           THEN /\ fnIn' = [fnIn EXCEPT !.clips = clips,
                                        !.reqs = Append(@, fnIn.len)]
                /\ UNCHANGED <<fnPc, fnOut>>
           ELSE /\ fnIn' = [fnIn EXCEPT !.clips = clips]
                /\ fnPc' = "out"
                /\ fnOut' = IF Len(fades) < fnIn.n - 1
                            THEN [res |-> "raise", fades |-> fades]
                            ELSE [res |-> "ok", fades |-> fades,
                                  video |-> IF fades = <<>> THEN Head(clips)
                                            ELSE fades[Len(fades)].out]
        /\ UNCHANGED <<mainVars, svVars>>

\* ------------------------------------------------------------------------
\* The transition composer (video_combiner.py 436-527) and the choice of
\* its background in process_segment (state_machine.py 198-210).
\* ------------------------------------------------------------------------
LastFrame == <<"last_frame">>
BlackFrame == <<"black_frame">>

\* Faulty variant: the background is the last frame, extracted or not.
TransitionBackgroundFrame(frame) == LastFrame

\* `if not last_frame_path:` a black image is made (198-204).
TransitionBackground(frame) == IF frame THEN LastFrame ELSE BlackFrame

\* The alpha of the background image at time T, in thousandths
\* (video_combiner.py 490-492): 255*(1-0.7*T/0.5) before 0.5 s,
\* 255*0.3*(1-(T-fade_out_start)/0.5) after fade_out_start, else 255*0.3.
BgAlpha(T, fos) ==
    IF T < 50 THEN 1000 - 14 * T
    ELSE IF T > fos THEN 300 - 6 * (T - fos)
    ELSE 300

\* The factor of the sound wave at time T, in thousandths (502-504):
\* T/0.4 before 0.4 s, 1-(T-fade_out_start)/0.5 after fade_out_start,
\* else 1.
WaveFactor(T, fos) ==
    IF T < 40 THEN 25 * T
    ELSE IF T > fos THEN 1000 - 20 * (T - fos)
    ELSE 1000

\* create_transition_composition: ad is the audio's duration, ov the
\* length of the sound-wave video.  The video is the black source and the
\* looped image, both of length ad, blended with the wave (shortest=1);
\* the output has the audio and is cut at -t ad.
CreateTransitionComposition(bg, ov, ad, tool) ==
    IF tool # "ok" THEN [res |-> "raise"]
    ELSE [res |-> "ok",
          cmd |-> [bg |-> bg, t |-> ad, fade_out_start |-> Max(0, ad - 50)],
          length |-> Min(ad, Max(Min(ad, ov), ad))]

InitCompose ==
    /\ JobCreated
    /\ fnPc = "in"
    /\ \E frame \in BOOLEAN, ov \in Durs, ad \in Durs, tool \in MatchTools :
          fnIn = [fn |-> "compose", frame |-> frame, overlay |-> ov,
                  audio |-> ad, tool |-> tool]
    /\ fnOut = NoCall

\* process_segment from the return of the overlay to the composed
\* transition (194-211).
ComposeStep ==
    /\ fnPc = "in" /\ fnIn.fn = "compose"
    /\ fnPc' = "out"
    /\ fnOut' = CreateTransitionComposition(TransitionBackground(fnIn.frame),
                                            fnIn.overlay, fnIn.audio, fnIn.tool)
    /\ UNCHANGED <<fnIn, mainVars, svVars>>

\* ------------------------------------------------------------------------
\* _generate_random_schedule_times (serverless/src/handler.py 183-230) as
\* one call.  Times are minutes from midnight; one step of the call is one
\* pass of the while loop, the candidate being what random.randint gives.
\* ------------------------------------------------------------------------
StartMinutes == 480
EndMinutes == 1260
MinSpacing == 30
MaxAttempts == 100

\* The values random.randint(start_minutes, end_minutes) gives in the
\* model: the two ends of the range and values 29, 30 and 60 minutes
\* from them.
Candidates ==
    {StartMinutes, StartMinutes + MinSpacing - 1, StartMinutes + MinSpacing,
     StartMinutes + 2 * MinSpacing, EndMinutes - MinSpacing + 1, EndMinutes}

ScheduleDates == {"d1", "d2"}

\* Faulty variant: no candidate is refused.
TooCloseNever(candidate, times) == FALSE

\* The spacing check (205-210): abs(candidate - existing) < 30 for some
\* time already taken.
TooClose(candidate, times) ==
    \E k \in 1..Len(times) :
        /\ candidate - times[k] < MinSpacing
        /\ times[k] - candidate < MinSpacing

\* times_minutes.sort() (216)
RECURSIVE InsertMinutes(_, _)
InsertMinutes(x, sorted) ==
    IF sorted = <<>> THEN <<x>>
    ELSE IF x < Head(sorted) THEN <<x>> \o sorted
    ELSE <<Head(sorted)>> \o InsertMinutes(x, Tail(sorted))

RECURSIVE SortMinutes(_)
SortMinutes(list) ==
    IF list = <<>> THEN <<>>
    ELSE InsertMinutes(Head(list), SortMinutes(Tail(list)))

\* datetime(date.year, date.month, date.day, hour, minute) (220-228); the
\* time zone does not change the fields.
ToDatetime(date, minutes) ==
    [date |-> date, hour |-> minutes \div 60, minute |-> minutes % 60]

InitSchedule ==
    /\ JobCreated
    /\ fnPc = "in"
    /\ \E date \in ScheduleDates, n \in 0..MaxPosts :
          fnIn = [fn |-> "schedule", date |-> date, num_posts |-> n,
                  times_minutes |-> <<>>, attempts |-> 0]
    /\ fnOut = NoCall

\* `while len(times_minutes) < num_posts and attempts < max_attempts` (201)
ScheduleLooping ==
    /\ Len(fnIn.times_minutes) < fnIn.num_posts
    /\ fnIn.attempts < MaxAttempts

\* One pass of the loop (201-213).
ScheduleDraw(candidate) ==
    /\ fnPc = "in" /\ fnIn.fn = "schedule"
    /\ ScheduleLooping
    /\ fnIn' = [fnIn EXCEPT
                  !.attempts = @ + 1,
                  !.times_minutes = IF TooClose(candidate, @) THEN @
                                    ELSE Append(@, candidate)]
    /\ UNCHANGED <<fnPc, fnOut, mainVars, svVars>>

\* After the loop (214-230): sort, convert, return.
ScheduleReturn ==
    LET sorted == SortMinutes(fnIn.times_minutes)
    IN  /\ fnPc = "in" /\ fnIn.fn = "schedule"
        /\ ~ScheduleLooping
        /\ fnPc' = "out"
        /\ fnOut' = [res |-> "ok",
                     schedule_times |->
                        [k \in 1..Len(sorted) |-> ToDatetime(fnIn.date, sorted[k])]]
        /\ UNCHANGED <<fnIn, mainVars, svVars>>

\* The single calls.
InitCalls ==
    InitVisual \/ InitCombine \/ InitMatch \/ InitVeo \/ InitCompose \/ InitSchedule

NextCalls ==
    \/ NextVisual
    \/ CombineStep
    \/ MatchStep
    \/ \E aprobe \in BOOLEAN, tool \in MatchTools : MatchAgain(aprobe, tool)
    \/ ComposeStep
    \/ VeoBegin
    \/ \E call \in {"ok", "fail"}, got \in ClipLens,
          failAt \in 0..(NumClips(MaxTarget) - 1) :
          VeoClipReturns(call, got, failAt)
    \/ \E candidate \in Candidates : ScheduleDraw(candidate)
    \/ ScheduleReturn

SpecCalls == InitCalls /\ [][NextCalls]_vars

\* ------------------------------------------------------------------------
\* Properties
\* ------------------------------------------------------------------------
\* Task t ran in this step.
StepBy(t) == Active(tasks[t]) /\ tasks'[t] # tasks[t]

\* A call created task t of this kind in this step.
Spawned(t, kind) == tasks[t].kind = "none" /\ tasks'[t].kind = kind

JobAllCompleted == AllCompleted(segments, seg)

Quiescent == \A t \in TaskIds : ~Active(tasks[t])

\* The segment of the job with the given order, if there is exactly one.
WithOrder(k) == {s \in {segments[j] : j \in 1..Len(segments)} : seg[s].order = k}

\* C1 (as stated): once every segment of the job is completed, job.status
\* becomes completed.  In a state where no task is alive and no pause request
\* is outstanding nothing more happens unless the user acts, so the job must
\* already be completed there.
CxC1 == (JobAllCompleted /\ Quiescent /\ ~pauseReq) => jobStatus = "completed"

\* C1 (amended): when a segment loop (start or resume) ends and every segment
\* of the job is completed, job.status becomes completed in that step and the
\* assembler is called with the output (combined path, else raw visual path)
\* of every segment in ascending order; final_video_path is set when the
\* assembly succeeds.
ThmC1 ==
    [][\A t \in TaskIds :
        (IsLoop(tasks[t]) /\ StepBy(t) /\ tasks'[t].pc = "done" /\ JobAllCompleted')
        => /\ jobStatus' = "completed"
           /\ Len(asmLog') = Len(asmLog) + 1
           /\ LET call == asmLog'[Len(asmLog')]
              IN  /\ Len(call.inputs) = Len(segments')
                  /\ \A k \in 1..Len(call.inputs) :
                        \E s \in WithOrder(k - 1)' :
                            call.inputs[k] = Out(seg'[s]) /\ call.inputs[k] # NoPath
                  /\ call.ok => final' = FinalPath
      ]_vars

WitC1 ==
    /\ jobStatus = "completed" /\ final = FinalPath
    /\ asmLog # <<>> /\ asmLog[Len(asmLog)].ok
    /\ Len(asmLog[Len(asmLog)].inputs) = NumSegs

\* C2: a full-job run started from idle, with no resume, retry or second
\* start, in which segment k fails, stops with job.status = paused and
\* current_segment_index = k, every earlier segment completed and every later
\* segment pending.
OnlyStartRan ==
    \E t \in TaskIds :
        /\ tasks[t].kind = "start" /\ tasks[t].pc = "done"
        /\ \A u \in TaskIds \ {t} : tasks[u].kind = "none"

ThmC2 ==
    \A k \in 1..Len(segments) :
        (OnlyStartRan /\ seg[segments[k]].status = "failed")
        => /\ jobStatus = "paused"
           /\ csi = k - 1
           /\ \A j \in 1..(k - 1) : seg[segments[j]].status = "completed"
           /\ \A j \in (k + 1)..Len(segments) : seg[segments[j]].status = "pending"

WitC2 ==
    /\ OnlyStartRan /\ Len(segments) >= 3
    /\ seg[segments[2]].status = "failed"
    /\ seg[segments[1]].status = "completed"

\* C3 (as stated): while a pause request is outstanding (no start or resume
\* call since), no step of a segment loop moves a segment from pending to
\* processing.
CxC3 ==
    [][\A t \in TaskIds :
        (pauseReq /\ IsLoop(tasks[t]) /\ StepBy(t))
        => \A s \in SegIds :
              ~(seg[s].status = "pending" /\ seg'[s].status = "processing")
      ]_vars

\* C4: resume_job_from_segment(index) sets status running and
\* current_segment_index = index and creates the loop task for that index;
\* the loop starts at index, steps over the segments that are completed when
\* it reaches them and leaves their status and paths as they are.
Paths(sg) == <<sg.status, sg.video_path, sg.audio_path, sg.combined_path>>

ThmC4 ==
    [][\A t \in TaskIds :
        /\ Spawned(t, "resume")
           => /\ jobStatus' = "running" /\ csi' = tasks'[t].start
              /\ tasks'[t].pc = "new"
        /\ (tasks[t].kind = "resume" /\ StepBy(t))
           => /\ \A s \in SegIds :
                    (s # tasks[t].seg /\ seg[s].status = "completed")
                    => Paths(seg'[s]) = Paths(seg[s])
              /\ (tasks[t].pc = "new" /\ tasks'[t].pc \in Awaiting)
                 => /\ tasks'[t].i >= tasks[t].start
                    /\ tasks'[t].seg = segments[tasks'[t].i + 1]
                    /\ seg[tasks'[t].seg].status # "completed"
                    /\ \A j \in tasks[t].start .. (tasks'[t].i - 1) :
                          seg[segments[j + 1]].status = "completed"
      ]_vars

WitC4 ==
    \E t \in TaskIds :
        /\ tasks[t].kind = "resume" /\ tasks[t].pc \in Awaiting
        /\ tasks[t].skipped >= 1 /\ tasks[t].i > tasks[t].start
        /\ seg[segments[tasks[t].start + 1]].status = "completed"

\* C5: neither the retry call nor any step of its background task changes
\* the order or the status of a segment other than the retried one, nor the
\* segment list.
ThmC5 ==
    [][\A t \in TaskIds :
        /\ Spawned(t, "retry")
           => /\ segments' = segments
              /\ \A s \in SegIds \ {tasks'[t].seg} :
                    seg'[s].order = seg[s].order /\ seg'[s].status = seg[s].status
        /\ (tasks[t].kind = "retry" /\ StepBy(t))
           => /\ segments' = segments
              /\ \A s \in SegIds \ {tasks[t].seg} :
                    seg'[s].order = seg[s].order /\ seg'[s].status = seg[s].status
      ]_vars

WitC5 ==
    \E t \in TaskIds :
        /\ tasks[t].kind = "retry" /\ tasks[t].pc \in Awaiting
        /\ \E s \in SegIds \ {tasks[t].seg} : seg[s].status = "completed"
        /\ \E s \in SegIds \ {tasks[t].seg} : seg[s].status = "failed"

\* C6: the retry call leaves the target segment processing with error and
\* paths cleared and the log reset to the retry entry; neither the call nor
\* a step of its task changes job.status or current_segment_index.
ThmC6 ==
    [][\A t \in TaskIds :
        /\ Spawned(t, "retry")
           => /\ LET sg == seg'[tasks'[t].seg]
                 IN  /\ sg.status = "processing" /\ sg.error = "none"
                     /\ sg.video_path = NoPath /\ sg.audio_path = NoPath
                     /\ sg.combined_path = NoPath
                     /\ sg.logs = <<"retry initiated">>
              /\ tasks'[t].pc = "new"
              /\ jobStatus' = jobStatus /\ csi' = csi
        /\ (tasks[t].kind = "retry" /\ StepBy(t))
           => jobStatus' = jobStatus /\ csi' = csi
      ]_vars

\* A retry has completed the last open segment; the job is still paused.
WitC6 ==
    /\ \E t \in TaskIds : tasks[t].kind = "retry" /\ tasks[t].pc = "done"
    /\ JobAllCompleted /\ jobStatus = "paused" /\ Quiescent

\* C7 (as stated): in every implementation of the segment loop a failed
\* segment is never skipped.  For the serverless pipeline: once a segment has
\* failed, no segment after it is processed or contributes a video.
CxC7 ==
    \A k \in svFailed :
        /\ ~(svPc = "run" /\ svI > k)
        /\ \A j \in 1..Len(svVideos) : svVideos[j] < k

\* C8 (as stated): once job.status is completed, no operation changes it.
CxC8 == [][jobStatus = "completed" => jobStatus' = "completed"]_vars

\* C9: when the final assembly fails in a step of a loop task, the job still
\* becomes completed, final_video_path is not assigned, every segment of the
\* job is completed after the step and no segment other than the one the
\* task had in flight changes its status.
ThmC9 ==
    [][\A t \in TaskIds :
        (StepBy(t) /\ Len(asmLog') = Len(asmLog) + 1 /\ ~asmLog'[Len(asmLog')].ok)
        => /\ jobStatus' = "completed"
           /\ final' = final
           /\ JobAllCompleted'
           /\ \A s \in SegIds \ {tasks[t].seg} : seg'[s].status = seg[s].status
      ]_vars

WitC9 ==
    /\ jobStatus = "completed" /\ final = NoPath /\ JobAllCompleted
    /\ asmLog # <<>> /\ ~asmLog[Len(asmLog)].ok

\* C10: deleting one segment of an n-segment job leaves the n-1 others, in
\* the same relative order, with order values 0..n-2.
ThmC10 ==
    [][nDeleted' = nDeleted + 1
        => /\ Len(segments') = Len(segments) - 1
           /\ \E k \in 1..Len(segments) : segments' = RemoveAt(segments, k)
           /\ \A j \in 1..Len(segments') : seg'[segments'[j]].order = j - 1
           /\ \A a, b \in {segments'[j] : j \in 1..Len(segments')} :
                 seg[a].order < seg[b].order => seg'[a].order < seg'[b].order
      ]_vars

WitC10 ==
    /\ nDeleted = 1 /\ Len(segments) = NumSegs - 1
    /\ segments[1] = 1 /\ segments[2] = 3
    /\ seg[1].order = 0 /\ seg[3].order = 1

\* C11 (as stated): in every reachable state the order values of the job's
\* segments are unique and are exactly 0..n-1.
CxC11 ==
    /\ \A j, k \in 1..Len(segments) :
          seg[segments[j]].order = seg[segments[k]].order => j = k
    /\ {seg[segments[k]].order : k \in 1..Len(segments)} = 0..(Len(segments) - 1)

Terminal(sg) == sg.status \in {"completed", "failed"}

\* The indices of the job's segments that are not terminal.
NonTerminal == {k \in 0..(Len(segments) - 1) : ~Terminal(seg[segments[k + 1]])}

\* current_segment_index is the first of them, if there is one.
AtFirstNonTerminal == \A k \in NonTerminal : csi <= k /\ csi \in NonTerminal

\* C12 (as stated): whenever job.status is running, current_segment_index
\* is the index of the first segment that is neither completed nor failed.
CxC12 == jobStatus = "running" => AtFirstNonTerminal

\* Only a start call has launched a task.
OnlyStartLaunched ==
    \E t \in TaskIds :
        tasks[t].kind = "start" /\ \A u \in TaskIds \ {t} : tasks[u].kind = "none"

\* The loop task t begins a segment in this step and is suspended in it.
Begins(t) ==
    /\ IsLoop(tasks[t]) /\ StepBy(t) /\ tasks'[t].pc \in Awaiting
    /\ tasks[t].pc = "new" \/ tasks'[t].seg # tasks[t].seg

\* C12: while the job is running and only a start call has launched a
\* task, current_segment_index is the index of the first segment that is
\* neither completed nor failed; and whenever a loop, started or resumed,
\* begins a segment, current_segment_index is the index of that segment.
ThmC12 ==
    [][/\ (OnlyStartLaunched' /\ jobStatus' = "running") => AtFirstNonTerminal'
       /\ \A t \in TaskIds :
            Begins(t) => /\ csi' = tasks'[t].i
                         /\ segments'[csi' + 1] = tasks'[t].seg]_vars

WitC12 ==
    /\ OnlyStartLaunched /\ jobStatus = "running" /\ csi = 1
    /\ seg[segments[1]].status = "completed"
    /\ seg[segments[2]].status = "processing"

\* C13: a start call on the known job creates one task for the segment
\* loop, not yet run, and changes nothing else; the first step of that task
\* takes the job out of idle, and the job is running when the task is then
\* suspended in a segment.  A start call that raises (unknown job id)
\* creates no task and changes nothing of the job.
ThmC13 ==
    [][/\ \A t \in TaskIds :
            Spawned(t, "start")
            => /\ tasks'[t] = [NoTask EXCEPT !.kind = "start", !.pc = "new"]
               /\ \A u \in TaskIds \ {t} : tasks'[u] = tasks[u]
               /\ UNCHANGED <<segments, seg, csi, final, asmLog, nRaised>>
       /\ \A t \in TaskIds :
            (tasks[t].kind = "start" /\ tasks[t].pc = "new" /\ StepBy(t))
            => /\ jobStatus' # "idle"
               /\ tasks'[t].pc \in Awaiting
                    => /\ jobStatus' = "running"
                       /\ seg'[tasks'[t].seg].status = "processing"
       /\ nRaised' # nRaised
            => UNCHANGED <<segments, seg, jobStatus, csi, final, tasks, asmLog>>]_vars

WitC13 ==
    /\ nRaised = 1 /\ jobStatus = "running" /\ OnlyStartLaunched
    /\ \E t \in TaskIds : tasks[t].kind = "start" /\ tasks[t].pc \in Awaiting

\* The processor raised on segment s in this step (268-272): the task that
\* ran has left the processor, s is the segment it was suspended in or a
\* segment it wrote to in the step, and s is failed after the step.  A
\* task that goes on to its next await in s did not raise, whatever the
\* status another task gave to s.
FailsIn(s) ==
    \E t \in TaskIds :
        /\ StepBy(t) /\ tasks'[t].pc = "done"
        /\ seg'[s].status = "failed"
        /\ \/ tasks[t].pc \in Awaiting /\ tasks[t].seg = s
           \/ seg'[s] # seg[s]

\* The failure is on the segment: its error and an ERROR entry ending its log.
Recorded(sg) ==
    /\ sg.status = "failed" /\ sg.error # "none"
    /\ sg.logs # <<>> /\ sg.logs[Len(sg.logs)] = "ERROR"

\* C14: a step of a task leaves the segment it processes processing (the
\* task still suspended in it), completed or failed; a segment whose
\* processing fails has the failure in its error field and an ERROR entry at the end
\* of its log, and the exception reaches the caller: the task ends, and a
\* loop has paused the job.  A loop never pauses the job without a segment
\* that failed in the same step.
ThmC14 ==
    [][\A t \in TaskIds : StepBy(t) =>
         /\ \A s \in SegIds :
              FailsIn(s) => /\ Recorded(seg'[s])
                            /\ s = tasks'[t].seg \/ tasks'[t].pc = "done"
                            /\ tasks'[t].pc = "done"
                            /\ IsLoop(tasks[t]) => jobStatus' = "paused"
         /\ tasks[t].pc \in Awaiting =>
              \/ seg'[tasks[t].seg].status = "processing" /\ tasks'[t].pc \in Awaiting
                   /\ tasks'[t].seg = tasks[t].seg
              \/ seg'[tasks[t].seg].status = "completed"
              \/ Recorded(seg'[tasks[t].seg])
         /\ (IsLoop(tasks[t]) /\ jobStatus # "paused" /\ jobStatus' = "paused")
              => \E s \in SegIds : FailsIn(s)]_vars

\* A loop stopped at a failed preview, and a retry failed at the duration
\* match.
WitC14 ==
    /\ jobStatus = "paused"
    /\ \E s, r \in SegIds :
          /\ Recorded(seg[s]) /\ seg[s].error = "preview"
          /\ Recorded(seg[r]) /\ seg[r].error = "match"

\* C15 (as stated): a transition segment without audio fails before the
\* overlay renderer is invoked: no task awaits the overlay renderer for a
\* segment that has no audio.
CxC15 == \A t \in TaskIds : tasks[t].pc = "overlay" => tasks[t].audio # NoPath

\* The types processed by a script preview and one render.
Scripted == {"manim", "pysim"}

\* The task t begins a segment in this step and is suspended in it.
BeginsAny(t) ==
    /\ StepBy(t) /\ tasks'[t].pc \in Awaiting
    /\ tasks[t].pc = "new" \/ tasks'[t].seg # tasks[t].seg

Attempted(T) == T.script

CxC18 ==
    [][\A t \in TaskIds :
         (IsLoop(tasks[t]) /\ StepBy(t) /\ tasks[t].pc \in Awaiting
            /\ tasks'[t].pc \in Awaiting /\ tasks'[t].seg # tasks[t].seg)
         => tasks'[t].ord >= tasks[t].ord]_vars

\* The log of the segment's latest processing has the entry m.
LoggedInRun(sg, m) ==
    \E i \in 1..Len(sg.logs) :
        sg.logs[i] = m /\ \A j \in i..Len(sg.logs) : sg.logs[j] # "starting"

\* C19 (as stated): a media-tool step that exits nonzero while a segment is
\* processed makes the segment end failed: no segment is completed by a
\* processing in which the extraction of the last frame failed.
CxC19 ==
    \A s \in SegIds :
        seg[s].status = "completed" => ~LoggedInRun(seg[s], "frame warning")

\* C20 (as stated): the processor is always called with no previous
\* segment or with one that is completed at the time of the call.
CxC20 ==
    [][\A t \in TaskIds :
         BeginsAny(t)
         => \/ tasks'[t].prev = 0
            \/ seg'[tasks'[t].prev].status = "completed"]_vars

\* The entries of a segment's log.
Logged(sg) == {sg.logs[k] : k \in 1..Len(sg.logs)}

\* C21: for every segment that is not a transition, with or without a
\* voiceover, the duration matcher is called exactly when the rendered
\* visual is more than 0.5 s off the target, and its output is then the
\* video that goes on (the combined path of a segment without audio); for
\* a transition the matcher is never called.
CxC21 ==
    fnPc = "out" /\ fnIn.fn = "visual" /\ fnOut.res = "ok" =>
        IF fnOut.sg.type = "transition"
        THEN "time-stretching" \notin Logged(fnOut.sg)
        ELSE /\ fnOut.o.far <=> "time-stretching" \in Logged(fnOut.sg)
             /\ fnOut.o.far /\ fnOut.sg.audio_path = NoPath
                   => fnOut.sg.combined_path = <<"matched", fnOut.sg.id>>

\* The combine call returned a file.
Combined == fnPc = "out" /\ fnIn.fn = "combine" /\ fnOut.res = "ok"

\* C22 as stated: when the audio is more than 0.5 s longer than the video
\* the video is frozen for (audio - video) and the output covers the
\* audio; otherwise the output is as long as the video.
CxC22 ==
    Combined =>
        IF fnIn.audio > fnIn.video + HalfSecond
        THEN fnOut.cmd.tpad = fnIn.audio - fnIn.video /\ fnOut.length = fnIn.audio
        ELSE fnOut.cmd.tpad = 0 /\ fnOut.length = fnIn.video

\* C22 (amended): when the audio is more than 0.5 s longer than the video
\* the video is frozen for (audio - video) and the output covers the
\* audio; otherwise the streams are muxed as they are and the output ends
\* with the shorter of the two; a segment without audio gets the video
\* path as its combined path.
ThmC22 ==
    /\ Combined =>
          IF fnIn.audio > fnIn.video + HalfSecond
          THEN fnOut.cmd.tpad = fnIn.audio - fnIn.video /\ fnOut.length = fnIn.audio
          ELSE fnOut.cmd.tpad = 0 /\ fnOut.length = Min(fnIn.video, fnIn.audio)
    /\ fnPc = "out" /\ fnIn.fn = "visual" /\ fnOut.res = "ok"
          /\ fnOut.sg.audio_path = NoPath
          => fnOut.sg.combined_path = fnOut.sg.video_path

WitC22 ==
    /\ Combined
    /\ fnIn.audio > fnIn.video + HalfSecond
    /\ fnOut.length = fnIn.audio

\* The matcher returned a stretched file.
Stretched == fnPc = "out" /\ fnIn.fn = "match" /\ fnOut.res = "ok" /\ ~fnOut.copy

\* A stage as a fraction: 2.0, 0.5, or so many ten-thousandths.
StageNum(s) == IF s = 20000 THEN 2 ELSE IF s = 5000 THEN 1 ELSE s
StageDen(s) == IF s = 20000 THEN 1 ELSE IF s = 5000 THEN 2 ELSE 10000

RECURSIVE ProdNum(_)
ProdNum(ss) == IF ss = <<>> THEN 1 ELSE StageNum(Head(ss)) * ProdNum(Tail(ss))

RECURSIVE ProdDen(_)
ProdDen(ss) == IF ss = <<>> THEN 1 ELSE StageDen(Head(ss)) * ProdDen(Tail(ss))

InRange(ss) == \A k \in 1..Len(ss) : ss[k] >= 5000 /\ ss[k] <= 20000

\* 2 to the power k
RECURSIVE Pow2(_)
Pow2(k) == IF k = 0 THEN 1 ELSE 2 * Pow2(k - 1)

\* C23 as stated: for a clip with audio and a speed factor Ds / Dt outside
\* the no-op band, every tempo stage lies in [0.5, 2.0], the product of
\* the stages equals the factor, a factor in [0.5, 2.0] gives one stage,
\* and Ds = 10 s, Dt = 5 s gives the single stage 2.0.
CxC23 ==
    Stretched /\ fnIn.clip.audio /\ fnIn.aprobe =>
        LET ss == fnOut.cmd.afilter
            num == fnIn.clip.dur
            den == fnIn.target
        IN  /\ InRange(ss)
            /\ ProdNum(ss) * den = num * ProdDen(ss)
            /\ 2 * num >= den /\ num <= 2 * den => Len(ss) = 1
            /\ num = 1000 /\ den = 500 => ss = <<20000>>

\* C23 (amended): when the probe finds the clip's audio stream, the chain
\* is k stages of exactly 2.0 (factor above 2.0) or of exactly 0.5 (factor
\* below 0.5) followed by one last stage, every stage lies in [0.5, 2.0],
\* and the last stage is the rest of the factor rounded to four decimals
\* (so the product is within 2^k * 0.00005, or 0.00005 / 2^k, of the
\* factor); a factor in [0.5, 2.0] gives one stage, and Ds = 10 s,
\* Dt = 5 s the single stage 2.0.
ThmC23 ==
    Stretched /\ fnIn.clip.audio /\ fnIn.aprobe =>
        LET ss == fnOut.cmd.afilter
            num == fnIn.clip.dur
            den == fnIn.target
            k == Len(ss) - 1
            last == ss[Len(ss)]
        IN  /\ Len(ss) >= 1
            /\ InRange(ss)
            /\ 2 * num >= den /\ num <= 2 * den => k = 0
            /\ num > 2 * den =>
                  /\ \A j \in 1..k : ss[j] = 20000
                  /\ 2 * (last * den * Pow2(k) - num * 10000) <= den * Pow2(k)
                  /\ 2 * (num * 10000 - last * den * Pow2(k)) <= den * Pow2(k)
            /\ 2 * num < den =>
                  /\ \A j \in 1..k : ss[j] = 5000
                  /\ 2 * (last * den - num * Pow2(k) * 10000) <= den
                  /\ 2 * (num * Pow2(k) * 10000 - last * den) <= den
            /\ 2 * num >= den /\ num <= 2 * den =>
                  /\ 2 * (last * den - num * 10000) <= den
                  /\ 2 * (num * 10000 - last * den) <= den
            /\ num = 1000 /\ den = 500 => ss = <<20000>>

WitC23 ==
    /\ Stretched /\ fnIn.clip.audio /\ fnIn.aprobe
    /\ Len(fnOut.cmd.afilter) = 3
    /\ fnOut.cmd.afilter[3] # 20000

\* C24: a source within 0.1 s of the target is returned as an unchanged
\* copy, with no speed change, and the matcher called again on its own
\* output with the same target copies again.
ThmC24 ==
    fnPc = "out" /\ fnIn.fn = "match" /\ fnOut.res = "ok" =>
        /\ fnIn.clip.dur - fnIn.target < 10 /\ fnIn.target - fnIn.clip.dur < 10 =>
              fnOut.copy /\ fnOut.out = fnIn.clip
        /\ fnIn.round = 2 /\ fnIn.first.copy =>
              fnOut.copy /\ fnOut.out = fnIn.first.out

WitC24 ==
    /\ fnPc = "out" /\ fnIn.fn = "match" /\ fnOut.res = "ok"
    /\ fnIn.round = 2 /\ fnIn.first.copy /\ fnOut.copy
    /\ fnIn.clip.dur = 502 /\ fnIn.target = 500

\* C25: for a source without an audio track the matcher builds no tempo
\* stage and maps no audio into the output (-an), only the video
\* timestamps are rescaled; tempo stages are built only for a source that
\* has an audio stream.
ThmC25 ==
    Stretched =>
        /\ ~fnIn.clip.audio =>
              /\ fnOut.cmd.afilter = <<>> /\ fnOut.cmd.an
              /\ fnOut.cmd.pts = <<fnIn.target, fnIn.clip.dur>>
              /\ ~fnOut.out.audio
        /\ fnOut.cmd.afilter # <<>> => fnIn.clip.audio

WitC25 ==
    /\ Stretched /\ ~fnIn.clip.audio /\ fnIn.aprobe
    /\ fnOut.cmd.an /\ fnOut.cmd.afilter = <<>>

\* C26: for every target duration above 0 the number of clips is
\* ceil(target / 8 s), at least 1; every clip is requested with the length
\* clamp(target / numClips, 4 s, 8 s), which lies in [4 s, 8 s]; a target
\* of 20 s gives exactly 3 clips.
ThmC26 ==
    fnIn.fn = "veo" /\ fnIn.pc = "clip" =>
        LET n == fnIn.n
            d == fnIn.target
        IN  /\ n >= 1
            /\ 80 * (n - 1) < d \/ n = 1
            /\ d <= 80 * n
            /\ Len(fnIn.reqs) >= 1 /\ Len(fnIn.reqs) <= n
            /\ fnPc = "out" /\ fnOut.res = "ok" => Len(fnIn.reqs) = n
            /\ \A k \in 1..Len(fnIn.reqs) :
                  LET r == fnIn.reqs[k]
                  IN  /\ r.den = n
                      /\ 40 * r.den <= r.num /\ r.num <= 80 * r.den
                      /\ r.num = IF d < 40 * n THEN 40 * n
                                 ELSE IF d > 80 * n THEN 80 * n ELSE d
            /\ d = 200 => n = 3

WitC26 ==
    /\ fnPc = "out" /\ fnIn.fn = "veo" /\ fnOut.res = "ok"
    /\ fnIn.target = 200 /\ Len(fnIn.reqs) = 3
    /\ fnIn.reqs[3] = [num |-> 200, den |-> 3]

\* C27: the numClips rendered clips are merged left to right by exactly
\* numClips - 1 crossfades, each joining the running result with the next
\* clip in render order at offset = (duration of the running result - fade
\* length), until one clip remains; if a clip render fails no merge is
\* attempted and the call fails.
ThmC27 ==
    /\ fnPc = "out" /\ fnIn.fn = "visual" /\ fnIn.T.pc = "clip"
          /\ fnOut.o.call = "fail"
          => /\ fnOut.res = "raise" /\ fnOut.sg.status = "failed"
             /\ "crossfading" \notin Logged(fnOut.sg)
    /\ fnPc = "out" /\ fnIn.fn = "veo" =>
        LET fs == fnOut.fades
            cs == fnIn.clips
        IN  /\ fnOut.res = "ok" =>
                  /\ Len(cs) = fnIn.n
                  /\ Len(fs) = fnIn.n - 1
                  /\ \A k \in 1..Len(fs) :
                        /\ fs[k].left = IF k = 1 THEN cs[1] ELSE fs[k - 1].out
                        /\ fs[k].right = cs[k + 1]
                        /\ fs[k].offset = fs[k].left.len - 5
                  /\ fnOut.video = IF fs = <<>> THEN cs[1] ELSE fs[Len(fs)].out
            /\ Len(cs) < fnIn.n => fnOut.res = "raise" /\ fs = <<>>

WitC27 ==
    /\ fnPc = "out" /\ fnIn.fn = "veo" /\ fnOut.res = "ok"
    /\ Len(fnOut.fades) = 2
    /\ fnOut.fades[2].offset = fnIn.clips[1].len + fnIn.clips[2].len - 10

\* The composer returned a file.
Composed == fnPc = "out" /\ fnIn.fn = "compose" /\ fnOut.res = "ok"

\* C28: a transition segment with audio completes when there is no
\* previous segment, when the previous segment has no output path and when
\* the frame extraction fails, if the renderer and the media tools work:
\* the background is then a black frame, and the composed output is cut
\* to exactly the duration of the narration audio.
ThmC28 ==
    /\ fnPc = "out" /\ fnIn.fn = "visual" /\ fnIn.sg.type = "transition"
          /\ fnIn.T.audio # NoPath /\ ~fnIn.T.frame
          /\ fnOut.o.call = "ok" /\ fnOut.o.post = "ok"
          => /\ fnOut.res = "ok" /\ fnOut.sg.status = "completed"
             /\ "composed" \in Logged(fnOut.sg)
             /\ fnOut.sg.combined_path # NoPath
    /\ Composed =>
          /\ ~fnIn.frame => fnOut.cmd.bg = BlackFrame
          /\ fnOut.cmd.t = fnIn.audio
          /\ fnOut.length = fnIn.audio

WitC28 ==
    /\ fnPc = "out" /\ fnIn.fn = "visual" /\ fnIn.sg.type = "transition"
    /\ "frame warning" \in Logged(fnOut.sg)
    /\ fnOut.sg.status = "completed"

AbsDiff(a, b) == IF a >= b THEN a - b ELSE b - a

\* C29: for every duration d of the transition the background opacity is
\* 100% at 0, falls to 30% over the fade-in window, holds 30% and is 0% at
\* d; the overlay factor is 0% at 0, 100% in the hold and 0% at d; both
\* stay within [0, 1] and neither jumps (from one hundredth of a second to
\* the next they change by no more than their steepest slope allows).
CxC29 ==
    Composed =>
        LET d == fnIn.audio
            fos == fnOut.cmd.fade_out_start
        IN  /\ BgAlpha(0, fos) = 1000 /\ BgAlpha(d, fos) = 0
            /\ WaveFactor(0, fos) = 0 /\ WaveFactor(d, fos) = 0
            /\ \A T \in 0..d :
                  /\ BgAlpha(T, fos) >= 0 /\ BgAlpha(T, fos) <= 1000
                  /\ WaveFactor(T, fos) >= 0 /\ WaveFactor(T, fos) <= 1000
                  /\ T >= 50 /\ T <= fos => BgAlpha(T, fos) = 300
                  /\ T >= 40 /\ T <= fos => WaveFactor(T, fos) = 1000
            /\ \A T \in 0..(d - 1) :
                  /\ AbsDiff(BgAlpha(T + 1, fos), BgAlpha(T, fos)) <= 14
                  /\ AbsDiff(WaveFactor(T + 1, fos), WaveFactor(T, fos)) <= 25

\* The segments of the job that have an output, after the step.
WithOutput == {k \in 1..Len(segments') : Out(seg'[segments'[k]]) # NoPath}

\* C30: the final assembler gets the outputs of the job's segments in
\* ascending `order`.  With exactly one output the file is copied as it is:
\* no filter, no encoder.  With two or more, every input is brought to the
\* one target size, frame rate and sample rate and they are concatenated
\* in that order in one encoded file.  final_video_path is set only by an
\* assembly that succeeded.
ThmC30 ==
    [][/\ asmLog' # asmLog =>
            LET e == asmLog'[Len(asmLog')]
                n == Len(e.inputs)
            IN  /\ asmLog' = Append(asmLog, e)
                /\ n = Cardinality(WithOutput) /\ n >= 1
                /\ \A k \in WithOutput :
                      \E j \in 1..n : e.inputs[j] = Out(seg'[segments'[k]])
                /\ \A j \in 1..(n - 1) :
                      \E a, b \in WithOutput :
                         /\ a # b
                         /\ e.inputs[j] = Out(seg'[segments'[a]])
                         /\ e.inputs[j + 1] = Out(seg'[segments'[b]])
                         /\ seg'[segments'[a]].order <= seg'[segments'[b]].order
                /\ n = 1 => /\ e.mode = "copy"
                            /\ e.filters = <<>> /\ e.codec = "none"
                /\ n >= 2 => /\ e.mode = "concat" /\ e.codec # "none"
                             /\ Len(e.filters) = n
                             /\ \A k \in 1..n :
                                   e.filters[k] = [width |-> 1280, height |-> 720,
                                                   fps |-> 30, rate |-> 44100]
                /\ final' = IF e.ok THEN FinalPath ELSE final
       /\ final' # final => asmLog' # asmLog]_vars

\* The job of three segments was assembled by a concatenation; its list
\* was then replaced by one segment and the job, run again, was assembled
\* by a copy.
WitC30 ==
    /\ final = FinalPath
    /\ Len(asmLog) = 2
    /\ asmLog[1].mode = "concat" /\ Len(asmLog[1].inputs) = 3 /\ asmLog[1].ok
    /\ asmLog[2].mode = "copy" /\ Len(asmLog[2].inputs) = 1 /\ asmLog[2].ok
    /\ Len(segments) = 1

\* C31: in the serverless pipeline a segment gets at most three attempts.
\* The first attempt is given no previous error; when an attempt other than
\* the third raises e, the same segment is attempted again with e as its
\* previous error; an attempt that returns appends the segment's video and
\* ends the attempts at that segment; when the third attempt raises, the
\* exception reaches generate_video, which records the segment as failed
\* and leaves it.
ThmC31 ==
    [][/\ svAttempt' + 1 <= 3
       /\ (svPc' = "run" /\ svAttempt' = 0) => SvPreviousError' = "none"
       /\ \A e \in SvErrors : \A c \in BOOLEAN :
             (MainIdle /\ SvAttemptFail(e, c))
             => IF svAttempt + 1 < 3
                THEN /\ svPc' = "run" /\ svI' = svI
                     /\ svAttempt' = svAttempt + 1
                     /\ SvPreviousError' = e
                     /\ svFailed' = svFailed /\ svVideos' = svVideos
                ELSE /\ svFailed' = svFailed \cup {svI}
                     /\ svVideos' = svVideos
                     /\ svAttempt' = 0
                     /\ (svPc' = "run" => svI' = svI + 1)
       /\ \A c \in BOOLEAN :
             (MainIdle /\ SvAttemptOk(c))
             => /\ svVideos' = Append(svVideos, svI)
                /\ svFailed' = svFailed
                /\ svAttempt' = 0
                /\ (svPc' = "run" => svI' = svI + 1)]_vars

WitC31 ==
    /\ svPc = "run" /\ svI = 1
    /\ svAttempt = 2 /\ SvPreviousError = "e2"
    /\ svFailed = {0}

\* A loop task that has returned or was ended by an exception.
LoopEnded(T) == IsLoop(T) /\ T.pc \in {"done", "crashed"}

\* No loop task is alive.
NoLoopAlive == \A t \in TaskIds : IsLoop(tasks[t]) => ~Active(tasks[t])

\* C32 (as stated): when the loop tasks of the job have terminated, the
\* job's status is paused or completed; the job is not left running with
\* no loop task alive.
CxC32 ==
    ((\E t \in TaskIds : LoopEnded(tasks[t])) /\ NoLoopAlive)
    => jobStatus \in {"paused", "completed"}

\* A task suspended inside process_segment.
InProcessor(T) == T.pc \in Awaiting

\* C33 (as stated): no two loop tasks of the job are processing segments
\* at the same time.
CxC33 ==
    \A t, u \in TaskIds :
        (t # u /\ IsLoop(tasks[t]) /\ IsLoop(tasks[u]))
        => ~(InProcessor(tasks[t]) /\ InProcessor(tasks[u]))

\* C34 (as stated): a retry task and another task are never inside the
\* segment processor on the same segment at the same time.
CxC34 ==
    \A t, u \in TaskIds :
        (t # u /\ tasks[t].kind = "retry"
              /\ InProcessor(tasks[t]) /\ InProcessor(tasks[u]))
        => tasks[t].seg # tasks[u].seg

\* The three paths of a segment.
ThreePaths(sg) == <<sg.video_path, sg.audio_path, sg.combined_path>>

\* C35: a completed segment has a combined_path, hence an output for the
\* final assembly; the step in which retry_segment resets a segment leaves
\* its three paths null, and a path of a segment goes from null to a value
\* only in a step of a task that is processing that segment.
ThmC35 ==
    [][/\ \A s \in DOMAIN seg' :
             seg'[s].status = "completed"
             => seg'[s].combined_path # NoPath /\ Out(seg'[s]) # NoPath
       /\ \A t \in TaskIds :
             (tasks[t].kind = "none" /\ tasks'[t].kind = "retry")
             => ThreePaths(seg'[tasks'[t].seg]) = <<NoPath, NoPath, NoPath>>
       /\ \A s \in DOMAIN seg :
             (\E j \in 1..3 : ThreePaths(seg[s])[j] = NoPath /\ ThreePaths(seg'[s])[j] # NoPath)
             => \E t \in TaskIds :
                   /\ tasks'[t] # tasks[t] /\ Active(tasks[t])
                   /\ tasks[t].seg = s \/ tasks'[t].seg = s]_vars

WitC35 ==
    \E s \in DOMAIN seg :
        /\ seg[s].status = "completed"
        /\ Head(seg[s].logs) = "retry initiated"
        /\ seg[s].combined_path = <<"combined", s>>
        /\ \E t \in TaskIds : tasks[t].kind = "retry" /\ tasks[t].pc = "done"

\* C36 (as stated): a completed segment of the job has no error.
CxC36 ==
    \A k \in 1..Len(segments) :
        seg[segments[k]].status = "completed" => seg[segments[k]].error = "none"

\* The segments of the job's current list.
Listed == {segments[k] : k \in 1..Len(segments)}

\* C37 (as stated): in a job with a segment, current_segment_index is an
\* index of the current list, and the segment a loop task is processing
\* is in the current list.
CxC37 ==
    Len(segments) >= 1
    => /\ 0 <= csi /\ csi < Len(segments)
       /\ \A t \in TaskIds :
             (IsLoop(tasks[t]) /\ InProcessor(tasks[t])) => tasks[t].seg \in Listed

\* C38 (as stated): the clips requested for a target cover it after the
\* crossfades: numClips * clipLen - (numClips - 1) * 0.5 s >= target
\* (in tenths of a second, clipLen being the fraction num / den).
CxC38 ==
    (fnIn.fn = "veo" /\ fnIn.pc = "clip")
    => LET n == fnIn.n
           r == fnIn.len
       IN  n * r.num - (n - 1) * FadeDuration * r.den >= fnIn.target * r.den

\* The schedule call returned.
Scheduled == fnPc = "out" /\ fnIn.fn = "schedule"

\* Minutes from midnight of a returned time.
MinuteOf(dt) == dt.hour * 60 + dt.minute

\* C39: the call makes at most 100 draws and ends when it has num_posts
\* times or has made 100 draws; the list it returns is in ascending order,
\* has at most num_posts times, each on the given date between 8:00 and
\* 21:00 inclusive, and any two of them are at least 30 minutes apart.
ThmC39 ==
    /\ fnIn.fn = "schedule" =>
          /\ fnIn.attempts <= 100
          /\ Len(fnIn.times_minutes) <= fnIn.attempts
    /\ Scheduled =>
          LET ts == fnOut.schedule_times
          IN  /\ Len(ts) = fnIn.num_posts \/ fnIn.attempts = 100
              /\ Len(ts) <= fnIn.num_posts
              /\ \A k \in 1..Len(ts) :
                    /\ ts[k].date = fnIn.date
                    /\ ts[k].hour \in 8..21 /\ ts[k].minute \in 0..59
                    /\ ts[k].hour = 21 => ts[k].minute = 0
              /\ \A k \in 1..(Len(ts) - 1) :
                    /\ MinuteOf(ts[k]) < MinuteOf(ts[k + 1])
                    /\ MinuteOf(ts[k + 1]) - MinuteOf(ts[k]) >= 30

WitC39 ==
    /\ Scheduled
    /\ fnIn.num_posts = 3 /\ fnIn.attempts = 100
    /\ Len(fnOut.schedule_times) = 2
    /\ fnIn.times_minutes[1] > fnIn.times_minutes[2]
    /\ fnOut.schedule_times[2] = [date |-> fnIn.date, hour |-> 21, minute |-> 0]

====
